---- MODULE Spec2Model ----
(***************************************************************************)
(* State-machine model of the BGAI.nl bookkeeping backend (src/main.py,    *)
(* src/schemas.py): the auth endpoints, the dashboard summary, the monthly *)
(* report, the listings and the creation endpoints, over the three         *)
(* collections of the document store.                                      *)
(*                                                                         *)
(* Money is fixed point.  A quantity is a count of tenths, a unit price a  *)
(* count of cents, an expense amount a count of mills (0.001), a VAT rate a *)
(* whole percentage.  Every computed amount is a count of Base units of    *)
(* 0.00001, so that quantity * unit_price * (vat_rate / 100) is exact;     *)
(* one cent is CentBase of them.                                           *)
(***************************************************************************)
EXTENDS Integers, Sequences, FiniteSets, TLC

VARIABLES
    db,         \* database.db is not None: the connection handle, set once at start
    user,       \* the "user" collection, in insertion order
    invoice,    \* the "invoice" collection, in insertion order
    expense,    \* the "expense" collection, in insertion order
    now,        \* datetime.utcnow(), in minutes
    inflight,   \* the signup requests between their lookup and their insert
    issued,     \* the tokens login has returned, each with the document it verified
    resp        \* the request handled by the last step and its response

vars == <<db, user, invoice, expense, now, inflight, issued, resp>>

----------------------------------------------------------------------------
(* Bounds of the model. *)

MaxUsers == 2       \* documents the user collection may hold
MaxTokens == 1      \* tokens login may have issued
MaxDocs == 2        \* documents the invoice / expense collection may hold
MaxTicks == 3       \* steps of the clock
MaxLimitTried == 2  \* the limits 1..MaxLimitTried are tried, and LIMIT_MAX

(* Program constants. *)

ACCESS_TOKEN_EXPIRE_MINUTES == 480
LIMIT_MIN == 1
LIMIT_MAX == 200
DEFAULT_VAT_RATE == 21
DEFAULT_QUANTITY == 0
DEFAULT_UNIT_PRICE == 0
DEFAULT_AMOUNT == 0

SECRET_KEY == "dev-secret-change-me"
OtherKey == "another-key"

TickMinutes == ACCESS_TOKEN_EXPIRE_MINUTES \div 2
MaxClock == MaxTicks * TickMinutes

----------------------------------------------------------------------------
(* Generic helpers. *)

Range(s) == {s[i] : i \in DOMAIN s}

Min(a, b) == IF a <= b THEN a ELSE b

Prefix(s, n) == SubSeq(s, 1, Min(n, Len(s)))

(* The orders in which the store may hand back the documents of a collection. *)
Orderings(s) ==
    {p \in [DOMAIN s -> DOMAIN s] : \A i, j \in DOMAIN s : p[i] = p[j] => i = j}

Reordered(s, p) == [i \in DOMAIN s |-> s[p[i]]]

----------------------------------------------------------------------------
(* Request inputs and stored values of the auth endpoints. *)

Emails == {"a@x.nl", "b@x.nl"}
Passwords == {"pw1", "pw2"}
Salts == {1, 2}
Clients == {1, 2}

(* A stored hashed_password: a bcrypt hash of pw under a salt, a stored text
   that is no hash ("plain"), or no such field in the document ("missing"). *)
Bcrypt(p, s) == [t |-> "bcrypt", pw |-> p, salt |-> s]
PlainText(p) == [t |-> "plain", pw |-> p, salt |-> 0]
MissingHash == [t |-> "missing", pw |-> "", salt |-> 0]

UserDoc(n, e, h, t) ==
    [name |-> n, email |-> e, hashed_password |-> h, is_active |-> TRUE,
     created_at |-> t, updated_at |-> t]

NoDoc == UserDoc("", "", MissingHash, 0)

(* The user collections the process may find in the store when it starts:
   none, or one document written without a usable hash. *)
InitialUsers ==
    {<<>>, <<UserDoc("Ann", "a@x.nl", MissingHash, 0)>>,
     <<UserDoc("Ann", "a@x.nl", PlainText("pw1"), 0)>>}

----------------------------------------------------------------------------
(* Persistence layer (database.get_documents, database.create_document). *)

(* get_documents(collection, {"email": e}, limit=1): no match, or one of the
   matches, whichever the store returns first. *)
get_documents_by_email(coll, e) ==
    LET m == {d \in Range(coll) : d.email = e}
    IN  IF m = {} THEN {<<>>} ELSE {<<d>> : d \in m}

(* get_documents(collection): every document, in an order the store chooses. *)
get_documents(coll) == {Reordered(coll, p) : p \in Orderings(coll)}

(* create_document(collection, document): one insert. *)
create_document(coll, doc) == Append(coll, doc)

----------------------------------------------------------------------------
(* Passwords and tokens. *)

(* pwd_context.verify: raises on a text that is no hash of a known scheme. *)
pwd_context_verify(plain_password, hashed_password) ==
    IF hashed_password.t # "bcrypt" THEN "raise"
    ELSE IF hashed_password.pw = plain_password THEN "true" ELSE "false"

verify_password_swallowing_as_true(plain_password, hashed_password) ==
    pwd_context_verify(plain_password, hashed_password) # "false"

verify_password(plain_password, hashed_password) ==
    LET r == pwd_context_verify(plain_password, hashed_password)
    IN  IF r = "raise" THEN FALSE ELSE r = "true"

(* pwd_context.hash: a fresh salt each call. *)
get_password_hash(password) == {Bcrypt(password, s) : s \in Salts}

NoSub == "<no sub>"

Claims(sub, exp) == [sub |-> sub, exp |-> exp]

(* jwt.encode: the claims and a MAC of exactly these claims under the key. *)
jwt_encode(claims, key) ==
    [kind |-> "bearer", claims |-> claims, mac |-> [key |-> key, claims |-> claims]]

NoCredentials == [kind |-> "none", claims |-> Claims(NoSub, 0),
                  mac |-> [key |-> "", claims |-> Claims(NoSub, 0)]]

create_access_token(sub, utcnow) ==
    jwt_encode(Claims(sub, utcnow + ACCESS_TOKEN_EXPIRE_MINUTES), SECRET_KEY)

(* jwt.decode: JWTError when the MAC does not verify under the key, and when
   exp < now (ExpiredSignatureError is a JWTError); the claims otherwise. *)
jwt_decode(token, key, utcnow) ==
    IF token.mac # [key |-> key, claims |-> token.claims]
    THEN [ok |-> FALSE, claims |-> token.claims]
    ELSE IF token.claims.exp < utcnow
    THEN [ok |-> FALSE, claims |-> token.claims]
    ELSE [ok |-> TRUE, claims |-> token.claims]

(* What get_current_user can come to: None, a user document, or the exception
   of the persistence call, which it does not catch. *)
Outcome(k, d) == [kind |-> k, doc |-> d]

get_current_user_not_catching(credentials) ==
    IF credentials.kind = "none" THEN {Outcome("none", NoDoc)}
    ELSE LET payload == jwt_decode(credentials, SECRET_KEY, now)
         IN  IF ~payload.ok THEN {Outcome("raise", NoDoc)}
             ELSE IF payload.claims.sub = NoSub THEN {Outcome("none", NoDoc)}
             ELSE IF ~db THEN {Outcome("raise", NoDoc)}
             ELSE {IF users = <<>> THEN Outcome("none", NoDoc)
                                   ELSE Outcome("user", users[1]) :
                   users \in get_documents_by_email(user, payload.claims.sub)}

get_current_user_catching_all(credentials) ==
    IF credentials.kind = "none" THEN {Outcome("none", NoDoc)}
    ELSE LET payload == jwt_decode(credentials, SECRET_KEY, now)
         IN  IF ~payload.ok THEN {Outcome("none", NoDoc)}
             ELSE IF payload.claims.sub = NoSub THEN {Outcome("none", NoDoc)}
             ELSE IF ~db THEN {Outcome("none", NoDoc)}
             ELSE {IF users = <<>> THEN Outcome("none", NoDoc)
                                   ELSE Outcome("user", users[1]) :
                   users \in get_documents_by_email(user, payload.claims.sub)}

get_current_user(credentials) ==
    IF credentials.kind = "none" THEN {Outcome("none", NoDoc)}
    ELSE LET payload == jwt_decode(credentials, SECRET_KEY, now)
         IN  IF ~payload.ok THEN {Outcome("none", NoDoc)}
             ELSE IF payload.claims.sub = NoSub THEN {Outcome("none", NoDoc)}
             ELSE IF ~db THEN {Outcome("raise", NoDoc)}
             ELSE {IF users = <<>> THEN Outcome("none", NoDoc)
                                   ELSE Outcome("user", users[1]) :
                   users \in get_documents_by_email(user, payload.claims.sub)}

(* The bearer credentials a client may present: none, a token login returned,
   such a token with its claims altered and the MAC kept, a token signed with
   another key, and a token signed with the key that carries no subject. *)
Tampered(t) ==
    {[t EXCEPT !.claims.sub = s] : s \in Emails \ {t.claims.sub}}
    \cup {[t EXCEPT !.claims.exp = t.claims.exp + ACCESS_TOKEN_EXPIRE_MINUTES]}

Presentable ==
    {NoCredentials}
    \cup {i.token : i \in issued}
    \cup UNION {Tampered(i.token) : i \in issued}
    \cup {jwt_encode(i.token.claims, OtherKey) : i \in issued}
    \cup {jwt_encode(Claims(NoSub, now + ACCESS_TOKEN_EXPIRE_MINUTES), SECRET_KEY)}

----------------------------------------------------------------------------
(* Responses.  Every step records the request it handled and the response
   it gave; a step that answers no request records NoResponse. *)

Response(op, status, req, body) == [op |-> op, status |-> status, req |-> req, body |-> body]

NoResponse == Response("none", 0, <<>>, <<>>)

Detail(text) == [detail |-> text]

(* str(e) of the exception a persistence call raises without a connection. *)
StoreError == Detail("database not available")

SignupRequests ==
    {[name |-> "Ann", email |-> "a@x.nl", password |-> "pw1"],
     [name |-> "Bob", email |-> "a@x.nl", password |-> "pw2"],
     [name |-> "Bob", email |-> "b@x.nl", password |-> "pw1"]}
LoginRequests == [email : Emails, password : Passwords]

Idle == [pc |-> "idle", doc |-> NoDoc]

Inserting == {c \in Clients : inflight[c].pc = "insert"}

----------------------------------------------------------------------------
(* POST /auth/signup.  The handler makes two persistence calls, the lookup
   and the insert; requests are served by a pool of threads, so the calls of
   two requests interleave. *)

(* Lines 98-108: the lookup, the duplicate check and the new document. *)
signup_lookup(c, u) ==
    /\ inflight[c].pc = "idle"
    /\ IF ~db
       THEN /\ resp' = Response("signup", 500, u, StoreError)
            /\ inflight' = inflight
       ELSE \E existing \in get_documents_by_email(user, u.email) :
              IF existing # <<>>
              THEN /\ resp' = Response("signup", 400, u,
                                       Detail("E-mailadres is al geregistreerd"))
                   /\ inflight' = inflight
              ELSE /\ Len(user) + Cardinality(Inserting) < MaxUsers
                   /\ \E h \in get_password_hash(u.password) :
                        inflight' = [inflight EXCEPT ![c] =
                            [pc |-> "insert", doc |-> UserDoc(u.name, u.email, h, now)]]
                   /\ resp' = NoResponse
    /\ UNCHANGED <<db, user, invoice, expense, now, issued>>

(* Lines 109-110: the insert and the public view of the new user. *)
signup_insert(c) ==
    /\ inflight[c].pc = "insert"
    /\ user' = create_document(user, inflight[c].doc)
    /\ resp' = Response("signup", 200,
                        [name |-> inflight[c].doc.name, email |-> inflight[c].doc.email],
                        [name |-> inflight[c].doc.name, email |-> inflight[c].doc.email])
    /\ inflight' = [inflight EXCEPT ![c] = Idle]
    /\ UNCHANGED <<db, invoice, expense, now, issued>>

----------------------------------------------------------------------------
(* POST /auth/login: one persistence call. *)

InvalidCredentials == Detail("Onjuiste inloggegevens")

login(payload) ==
    /\ IF ~db
       THEN /\ resp' = Response("login", 500, payload, StoreError)
            /\ issued' = issued
       ELSE \E users \in get_documents_by_email(user, payload.email) :
              IF users = <<>>
              THEN /\ resp' = Response("login", 400, payload, InvalidCredentials)
                   /\ issued' = issued
              ELSE IF ~verify_password(payload.password, users[1].hashed_password)
              THEN /\ resp' = Response("login", 400, payload, InvalidCredentials)
                   /\ issued' = issued
              ELSE LET token == create_access_token(users[1].email, now)
                       grant == [token |-> token, doc |-> users[1], at |-> now]
                   IN  /\ Cardinality(issued \cup {grant}) <= MaxTokens
                       /\ resp' = Response("login", 200, payload,
                                           [access_token |-> token, token_type |-> "bearer"])
                       /\ issued' = issued \cup {grant}
    /\ UNCHANGED <<db, user, invoice, expense, now, inflight>>

----------------------------------------------------------------------------
(* GET /auth/me: the dependency get_current_user, then the handler. *)

me_returning_document(current_user) ==
    IF current_user.kind = "raise" THEN [status |-> 500, body |-> StoreError]
    ELSE IF current_user.kind = "none"
    THEN [status |-> 401, body |-> Detail("Niet geautoriseerd")]
    ELSE [status |-> 200, body |-> current_user.doc]

me(current_user) ==
    IF current_user.kind = "raise" THEN [status |-> 500, body |-> StoreError]
    ELSE IF current_user.kind = "none"
    THEN [status |-> 401, body |-> Detail("Niet geautoriseerd")]
    ELSE [status |-> 200, body |-> [name |-> current_user.doc.name,
                                    email |-> current_user.doc.email]]

auth_me(credentials) ==
    /\ \E current_user \in get_current_user(credentials) :
         resp' = Response("me", me(current_user).status,
                          [credentials |-> credentials, current_user |-> current_user],
                          me(current_user).body)
    /\ UNCHANGED <<db, user, invoice, expense, now, inflight, issued>>

(* Time passes between requests. *)
Tick ==
    /\ now < MaxClock
    /\ now' = now + TickMinutes
    /\ resp' = NoResponse
    /\ UNCHANGED <<db, user, invoice, expense, inflight, issued>>

InitAuth ==
    /\ db = TRUE
    /\ user \in InitialUsers
    /\ invoice = <<>>
    /\ expense = <<>>
    /\ now = 0
    /\ inflight = [c \in Clients |-> Idle]
    /\ issued = {}
    /\ resp = NoResponse

NextAuth ==
    \/ \E c \in Clients, u \in SignupRequests : signup_lookup(c, u)
    \/ \E c \in Clients : signup_insert(c)
    \/ \E payload \in LoginRequests : login(payload)
    \/ \E credentials \in Presentable : auth_me(credentials)

SpecAuth == InitAuth /\ [][NextAuth]_vars

----------------------------------------------------------------------------
(* Claims about the auth endpoints, checked under SpecAuth. *)

(* C1 (as claimed): in every reachable state of the user collection, after
   any interleaving of signup requests, no two user documents carry the same
   email. *)
C1_OneUserPerEmail ==
    \A i, j \in DOMAIN user : user[i].email = user[j].email => i = j

(* The documents of an email whose stored hash is a hash of the password. *)
VerifiedDocs(email, password) ==
    {d \in Range(user) : /\ d.email = email
                         /\ d.hashed_password.t = "bcrypt"
                         /\ d.hashed_password.pw = password}

LoginAnswer ==
    LET q == resp.req
        verified == VerifiedDocs(q.email, q.password)
        known == {d \in Range(user) : d.email = q.email}
    IN  /\ resp.status \in {200, 400}
        /\ resp.status = 200 =>
             /\ verified # {}
             /\ resp.body.token_type = "bearer"
             /\ resp.body.access_token.claims.sub = q.email
             /\ \E i \in issued : i.token = resp.body.access_token /\ i.doc \in verified
        /\ resp.status = 400 =>
             /\ resp.body = InvalidCredentials
             /\ known \ verified # {} \/ known = {}
        /\ verified = {} => resp.status = 400
        /\ (known # {} /\ known = verified) => resp.status = 200

(* C2: login answers 200 with a token only when a document of the email
   exists whose stored hash is a hash of the supplied password; for an
   unknown email, a wrong password, a missing or a malformed stored hash it
   answers the one 400 "Onjuiste inloggegevens", records no token, and no
   login step changes the user collection. *)
C2_LoginOnlyForVerifiedPassword ==
    /\ [](resp.op = "login" => LoginAnswer)
    /\ [][resp'.op = "login" =>
            /\ user' = user
            /\ resp'.status # 200 => issued' = issued]_vars

(* A login with the very text a document stores in place of a hash: 400. *)
C2_Witness ==
    /\ resp.op = "login"
    /\ resp.status = 400
    /\ \E d \in Range(user) : /\ d.email = resp.req.email
                              /\ d.hashed_password = PlainText(resp.req.password)

(* C4: /auth/me answers 401 exactly when get_current_user came to None, which
   it does when no credential is sent; when it came to a user the answer is
   200 with the name and the email of that document and nothing else; and no
   /auth/me or signup response has a hashed_password field. *)
C4_MeUnauthorizedIffNoUser ==
    /\ resp.op = "me" =>
         LET cu == resp.req.current_user
         IN  /\ resp.status = 401 <=> cu.kind = "none"
             /\ resp.req.credentials = NoCredentials => resp.status = 401
             /\ cu.kind = "user" =>
                  /\ cu.doc \in Range(user)
                  /\ resp.status = 200
                  /\ DOMAIN resp.body = {"name", "email"}
                  /\ resp.body.name = cu.doc.name
                  /\ resp.body.email = cu.doc.email
    /\ resp.op \in {"me", "signup"} => "hashed_password" \notin DOMAIN resp.body

C4_Witness ==
    /\ resp.op = "me"
    /\ resp.status = 200
    /\ resp.body = [name |-> "Ann", email |-> "a@x.nl"]

----------------------------------------------------------------------------
(* Tokens over time: login, /auth/me and the clock, over the user
   collections earlier signups have left in the store (the last one holds
   two documents of one email, which interleaved signups produce). *)

Ann == UserDoc("Ann", "a@x.nl", Bcrypt("pw1", 1), 0)
Bob == UserDoc("Bob", "b@x.nl", Bcrypt("pw1", 2), 0)
Bob2 == UserDoc("Bob", "a@x.nl", Bcrypt("pw2", 1), 0)

SignedUpUsers == {<<Ann>>, <<Ann, Bob>>, <<Ann, Bob2>>}

InitToken ==
    /\ db = TRUE
    /\ user \in SignedUpUsers
    /\ invoice = <<>>
    /\ expense = <<>>
    /\ now = 0
    /\ inflight = [c \in Clients |-> Idle]
    /\ issued = {}
    /\ resp = NoResponse

NextToken ==
    \/ \E payload \in LoginRequests : login(payload)
    \/ \E credentials \in Presentable : auth_me(credentials)
    \/ Tick

SpecToken == InitToken /\ [][NextToken]_vars

MacVerifies(t) == t.mac = [key |-> SECRET_KEY, claims |-> t.claims]

(* What get_current_user came to for a credential that is no usable token:
   None, and no exception, for an absent credential, for a MAC that does not
   verify under the key, and for claims without a subject. *)
NoUserForUnusableCredential ==
    LET c == resp.req.credentials
        cu == resp.req.current_user
    IN  /\ c = NoCredentials => cu.kind = "none"
        /\ (c.kind = "bearer" /\ ~MacVerifies(c)) => cu.kind = "none"
        /\ (c.kind = "bearer" /\ c.claims.sub = NoSub) => cu.kind = "none"

ResolvesToUserOf(i) ==
    LET cu == resp.req.current_user
        same == {d \in Range(user) : d.email = i.doc.email}
    IN  /\ cu.kind = "user"
        /\ cu.doc \in same
        /\ same = {i.doc} => cu.doc = i.doc

(* C3 (as claimed): a token login issued for user U resolves to U's document
   at any time before issuance + 480 minutes and to no user, without raising,
   from issuance + 480 minutes on. *)
C3_NoUserFromExpiryOn ==
    resp.op = "me" =>
      /\ \A i \in issued : resp.req.credentials = i.token =>
           /\ now < i.at + ACCESS_TOKEN_EXPIRE_MINUTES => ResolvesToUserOf(i)
           /\ now >= i.at + ACCESS_TOKEN_EXPIRE_MINUTES =>
                resp.req.current_user.kind = "none"
      /\ NoUserForUnusableCredential

(* C3 (amended): a token login issued for user U resolves to a user document
   of U's email (U's own document when the email has one document) at any
   time up to and including issuance + 480 minutes, and to no user, without
   raising, at any later time; an absent credential, a MAC that does not
   verify and claims without a subject resolve to no user without raising. *)
C3_NoUserAfterExpiry ==
    resp.op = "me" =>
      /\ \A i \in issued : resp.req.credentials = i.token =>
           /\ now <= i.at + ACCESS_TOKEN_EXPIRE_MINUTES => ResolvesToUserOf(i)
           /\ now > i.at + ACCESS_TOKEN_EXPIRE_MINUTES =>
                resp.req.current_user.kind = "none"
      /\ NoUserForUnusableCredential

(* The token presented in the very minute it expires still resolves. *)
C3_Witness ==
    /\ resp.op = "me"
    /\ \E i \in issued : /\ resp.req.credentials = i.token
                         /\ now = i.at + ACCESS_TOKEN_EXPIRE_MINUTES
                         /\ resp.req.current_user = Outcome("user", i.doc)

----------------------------------------------------------------------------
(* Invoice and expense documents.  A stored field is a number, a numeric
   text, absent ("missing"), or something float() raises on ("bad"). *)

CentBase == 1000     \* one cent (0.01), in Base units of 0.00001
LineBase == 100      \* a tenth times a cent (0.001), in Base units
MillBase == 100      \* a mill (0.001), in Base units

Num(v) == [t |-> "num", v |-> v]
NumText(v) == [t |-> "numtext", v |-> v]
Missing == [t |-> "missing", v |-> 0]
Bad == [t |-> "bad", v |-> 0]

(* A stored date: a date object, a text, absent, or a value of another type. *)
Date(y, m) == [t |-> "date", y |-> y, m |-> m]
DateText(y, m) == [t |-> "text", y |-> y, m |-> m]
NoDate == [t |-> "missing", y |-> 0, m |-> 0]
OtherDate == [t |-> "other", y |-> 0, m |-> 0]

Item(q, p, r) == [t |-> "dict", quantity |-> q, unit_price |-> p, vat_rate |-> r]
NotAnItem == [t |-> "other", quantity |-> Missing, unit_price |-> Missing,
              vat_rate |-> Missing]

Items(seq) == [t |-> "list", v |-> seq]
NoItems == [t |-> "missing", v |-> <<>>]
NullItems == [t |-> "null", v |-> <<>>]

(* A stored created_at: the datetime the handler stamped, or no such field. *)
Time(t) == [t |-> "datetime", v |-> t]
NoTime == [t |-> "missing", v |-> 0]

InvoiceDoc(d, st, its, ca) ==
    [issue_date |-> d, status |-> st, items |-> its, created_at |-> ca]

ExpenseDoc(d, a, r, ca) ==
    [expense_date |-> d, amount_ex_vat |-> a, vat_rate |-> r, created_at |-> ca]

(* float(x.get(field, default)) *)
to_float(x, default) ==
    IF x.t = "missing" THEN [ok |-> TRUE, v |-> default]
    ELSE IF x.t \in {"num", "numtext"} THEN [ok |-> TRUE, v |-> x.v]
    ELSE [ok |-> FALSE, v |-> 0]

(* round(x, 2), half to even: Base units to cents. *)
round2(x) ==
    LET q == x \div CentBase
        r == x % CentBase
    IN  IF 2 * r < CentBase THEN q
        ELSE IF 2 * r > CentBase THEN q + 1
        ELSE IF q % 2 = 0 THEN q ELSE q + 1

(* date.fromisoformat(text): a date, or ValueError. *)
fromisoformat(d) ==
    IF d.y \in 1..9999 /\ d.m \in 1..12 THEN [ok |-> TRUE, d |-> Date(d.y, d.m)]
    ELSE [ok |-> FALSE, d |-> NoDate]

(* The loop over the items of one invoice (lines 153-160, and again lines
   244-251): the totals so far, or the exception of the item that raised. *)
RECURSIVE item_loop(_, _, _, _)
item_loop(items, k, inv_ex, inv_vat) ==
    IF k > Len(items) THEN [ok |-> TRUE, ex |-> inv_ex, vat |-> inv_vat]
    ELSE IF items[k].t # "dict" THEN [ok |-> FALSE, ex |-> inv_ex, vat |-> inv_vat]
    ELSE LET qty == to_float(items[k].quantity, DEFAULT_QUANTITY)
             unit == to_float(items[k].unit_price, DEFAULT_UNIT_PRICE)
             rate == to_float(items[k].vat_rate, DEFAULT_VAT_RATE)
             line_ex == qty.v * unit.v * LineBase
             line_vat == (line_ex * rate.v) \div 100
         IN  IF ~(qty.ok /\ unit.ok /\ rate.ok)
             THEN [ok |-> FALSE, ex |-> inv_ex, vat |-> inv_vat]
             ELSE item_loop(items, k + 1, inv_ex + line_ex, inv_vat + line_vat)

(* for it in inv.get("items", []): iterating None raises. *)
invoice_totals(inv) ==
    IF inv.items.t = "null" THEN [ok |-> FALSE, ex |-> 0, vat |-> 0]
    ELSE item_loop(inv.items.v, 1, 0, 0)

(* The amounts of one expense (lines 171-174, and again lines 269-274). *)
expense_totals(ex) ==
    LET amount_ex == to_float(ex.amount_ex_vat, DEFAULT_AMOUNT)
        rate == to_float(ex.vat_rate, DEFAULT_VAT_RATE)
    IN  [ok |-> amount_ex.ok /\ rate.ok,
         ex |-> amount_ex.v * MillBase,
         vat |-> (amount_ex.v * MillBase * rate.v) \div 100]

----------------------------------------------------------------------------
(* GET /api/dashboard/summary *)

is_paid_or_sent(inv) == inv.status \in {"betaald", "verzonden"}

is_paid(inv) == inv.status = "betaald"

(* Lines 150-166: no exception is caught inside the loop. *)
RECURSIVE summary_invoices(_, _, _)
summary_invoices(invoices, k, acc) ==
    IF k > Len(invoices) THEN acc
    ELSE LET t == invoice_totals(invoices[k])
         IN  IF ~t.ok THEN [acc EXCEPT !.ok = FALSE]
             ELSE summary_invoices(invoices, k + 1,
                    [ok |-> TRUE,
                     ex |-> acc.ex + t.ex,
                     vat |-> acc.vat + t.vat,
                     paid |-> IF is_paid(invoices[k]) THEN acc.paid + 1 ELSE acc.paid,
                     open |-> IF is_paid(invoices[k]) THEN acc.open ELSE acc.open + 1])

(* Lines 170-174. *)
RECURSIVE summary_expenses(_, _, _)
summary_expenses(expenses, k, acc) ==
    IF k > Len(expenses) THEN acc
    ELSE LET t == expense_totals(expenses[k])
         IN  IF ~t.ok THEN [acc EXCEPT !.ok = FALSE]
             ELSE summary_expenses(expenses, k + 1,
                    [ok |-> TRUE, ex |-> acc.ex + t.ex, vat |-> acc.vat + t.vat])

DashboardSummary_from_rounded(revenue_ex_vat, revenue_vat, expenses_ex_vat, expenses_vat, open_invoices, paid_invoices) ==
    [revenue_ex_vat |-> round2(revenue_ex_vat),
     revenue_vat |-> round2(revenue_vat),
     revenue_inc_vat |-> round2(revenue_ex_vat) + round2(revenue_vat),
     expenses_ex_vat |-> round2(expenses_ex_vat),
     expenses_vat |-> round2(expenses_vat),
     expenses_inc_vat |-> round2(expenses_ex_vat) + round2(expenses_vat),
     open_invoices |-> open_invoices,
     paid_invoices |-> paid_invoices]

(* Lines 176-185: the six amounts in cents, the two counts. *)
DashboardSummary(revenue_ex_vat, revenue_vat, expenses_ex_vat, expenses_vat, open_invoices, paid_invoices) ==
    [revenue_ex_vat |-> round2(revenue_ex_vat),
     revenue_vat |-> round2(revenue_vat),
     revenue_inc_vat |-> round2(revenue_ex_vat + revenue_vat),
     expenses_ex_vat |-> round2(expenses_ex_vat),
     expenses_vat |-> round2(expenses_vat),
     expenses_inc_vat |-> round2(expenses_ex_vat + expenses_vat),
     open_invoices |-> open_invoices,
     paid_invoices |-> paid_invoices]

(* The handler on the documents the two persistence calls returned. *)
get_dashboard_summary(invoices, expenses) ==
    LET rev == summary_invoices(invoices, 1,
                  [ok |-> TRUE, ex |-> 0, vat |-> 0, paid |-> 0, open |-> 0])
        exp == summary_expenses(expenses, 1, [ok |-> TRUE, ex |-> 0, vat |-> 0])
    IN  IF ~rev.ok THEN [status |-> 500, body |-> Detail("invoice")]
        ELSE IF ~exp.ok THEN [status |-> 500, body |-> Detail("expense")]
        ELSE [status |-> 200,
              body |-> DashboardSummary(rev.ex, rev.vat, exp.ex, exp.vat,
                                        rev.open, rev.paid)]

dashboard_summary ==
    /\ IF ~db
       THEN resp' = Response("summary", 500, <<>>, StoreError)
       ELSE \E invoices \in get_documents(invoice), expenses \in get_documents(expense) :
              LET r == get_dashboard_summary(invoices, expenses)
              IN  resp' = Response("summary", r.status, <<>>, r.body)
    /\ UNCHANGED <<db, user, invoice, expense, now, inflight, issued>>

----------------------------------------------------------------------------
(* GET /api/reports/monthly *)

Years == {2023, 2024}

ZeroBucket ==
    [revenue_ex_vat |-> 0, revenue_vat |-> 0, revenue_inc_vat |-> 0,
     expenses_ex_vat |-> 0, expenses_vat |-> 0, expenses_inc_vat |-> 0]

(* Lines 235-241 and 262-268: the date of a document, or no date to count. *)
document_date(d) ==
    IF d.t = "text" THEN fromisoformat(d)
    ELSE IF d.t = "date" THEN [ok |-> TRUE, d |-> d]
    ELSE [ok |-> FALSE, d |-> NoDate]

(* Lines 234-257, one invoice: the buckets after it.  The mutant adds each
   line to the bucket as it goes, so an invoice that raises leaves a part. *)
monthly_invoice_adding_lines(months, inv, year) ==
    LET d == document_date(inv.issue_date)
        t == invoice_totals(inv)
    IN  IF ~d.ok THEN months
        ELSE IF d.d.y # year THEN months
        ELSE [months EXCEPT ![d.d.m] =
                 [@ EXCEPT !.revenue_ex_vat = @ + t.ex,
                           !.revenue_vat = @ + t.vat,
                           !.revenue_inc_vat = @ + t.ex + t.vat]]

monthly_invoice(months, inv, year) ==
    LET d == document_date(inv.issue_date)
        t == invoice_totals(inv)
    IN  IF ~d.ok THEN months
        ELSE IF d.d.y # year THEN months
        ELSE IF ~t.ok THEN months
        ELSE [months EXCEPT ![d.d.m] =
                 [@ EXCEPT !.revenue_ex_vat = @ + t.ex,
                           !.revenue_vat = @ + t.vat,
                           !.revenue_inc_vat = @ + t.ex + t.vat]]

(* Lines 260-276, one expense. *)
monthly_expense(months, ex, year) ==
    LET d == document_date(ex.expense_date)
        t == expense_totals(ex)
    IN  IF ~d.ok THEN months
        ELSE IF d.d.y # year THEN months
        ELSE IF ~t.ok THEN months
        ELSE [months EXCEPT ![d.d.m] =
                 [@ EXCEPT !.expenses_ex_vat = @ + t.ex,
                           !.expenses_vat = @ + t.vat,
                           !.expenses_inc_vat = @ + t.ex + t.vat]]

RECURSIVE monthly_invoices(_, _, _, _)
monthly_invoices(months, invoices, k, year) ==
    IF k > Len(invoices) THEN months
    ELSE monthly_invoices(monthly_invoice(months, invoices[k], year), invoices, k + 1, year)

RECURSIVE monthly_expenses(_, _, _, _)
monthly_expenses(months, expenses, k, year) ==
    IF k > Len(expenses) THEN months
    ELSE monthly_expenses(monthly_expense(months, expenses[k], year), expenses, k + 1, year)

(* Lines 278-283: the twelve entries, each value rounded. *)
monthly_result(months, year) ==
    [year |-> year,
     months |-> [m \in 1..12 |->
        [month |-> m,
         revenue_ex_vat |-> round2(months[m].revenue_ex_vat),
         revenue_vat |-> round2(months[m].revenue_vat),
         revenue_inc_vat |-> round2(months[m].revenue_inc_vat),
         expenses_ex_vat |-> round2(months[m].expenses_ex_vat),
         expenses_vat |-> round2(months[m].expenses_vat),
         expenses_inc_vat |-> round2(months[m].expenses_inc_vat)]]]

monthly_report_of(invoices, expenses, year) ==
    monthly_result(
        monthly_expenses(
            monthly_invoices([m \in 1..12 |-> ZeroBucket], invoices, 1, year),
            expenses, 1, year),
        year)

monthly_report(year) ==
    /\ IF ~db
       THEN resp' = Response("monthly", 500, [year |-> year], StoreError)
       ELSE \E invoices \in get_documents(invoice), expenses \in get_documents(expense) :
              resp' = Response("monthly", 200, [year |-> year],
                               monthly_report_of(invoices, expenses, year))
    /\ UNCHANGED <<db, user, invoice, expense, now, inflight, issued>>

----------------------------------------------------------------------------
(* Request validation (src/schemas.py, and Query(20, ge=1, le=200)): a
   request that fails it is answered before the handler runs. *)

ValidationError == Detail("validation error")

Statuses == {"concept", "verzonden", "betaald", "verlopen"}

InvoiceItem(it) ==
    /\ it.t = "dict"
    /\ it.quantity.t = "num" /\ it.quantity.v >= 0
    /\ it.unit_price.t = "num" /\ it.unit_price.v >= 0
    /\ it.vat_rate.t = "num" /\ it.vat_rate.v >= 0 /\ it.vat_rate.v <= 100

Invoice(inv) ==
    /\ inv.issue_date.t = "date"
    /\ inv.status \in Statuses
    /\ inv.items.t = "list"
    /\ \A k \in DOMAIN inv.items.v : InvoiceItem(inv.items.v[k])

Expense(ex) ==
    /\ ex.expense_date.t = "date"
    /\ ex.amount_ex_vat.t = "num" /\ ex.amount_ex_vat.v >= 0
    /\ ex.vat_rate.t = "num" /\ ex.vat_rate.v >= 0 /\ ex.vat_rate.v <= 100

limit_in_range(limit) == LIMIT_MIN <= limit /\ limit <= LIMIT_MAX

----------------------------------------------------------------------------
(* POST /api/invoices, POST /api/expenses: one insert each. *)

Created(id) == [id |-> id, status |-> "ok"]

create_invoice(inv) ==
    /\ Len(invoice) < MaxDocs
    /\ IF ~Invoice(inv)
       THEN /\ resp' = Response("create_invoice", 422, inv, ValidationError)
            /\ invoice' = invoice
       ELSE IF ~db
       THEN /\ resp' = Response("create_invoice", 500, inv, StoreError)
            /\ invoice' = invoice
       ELSE /\ invoice' = create_document(invoice, [inv EXCEPT !.created_at = Time(now)])
            /\ resp' = Response("create_invoice", 200, inv, Created(Len(invoice) + 1))
    /\ UNCHANGED <<db, user, expense, now, inflight, issued>>

create_expense(ex) ==
    /\ Len(expense) < MaxDocs
    /\ IF ~Expense(ex)
       THEN /\ resp' = Response("create_expense", 422, ex, ValidationError)
            /\ expense' = expense
       ELSE IF ~db
       THEN /\ resp' = Response("create_expense", 500, ex, StoreError)
            /\ expense' = expense
       ELSE /\ expense' = create_document(expense, [ex EXCEPT !.created_at = Time(now)])
            /\ resp' = Response("create_expense", 200, ex, Created(Len(expense) + 1))
    /\ UNCHANGED <<db, user, invoice, now, inflight, issued>>

----------------------------------------------------------------------------
(* GET /api/invoices, GET /api/expenses.  The sort key is a pair of texts; a
   text is a sequence of character codes, a digit being its own value. *)

Digits2(n) == <<(n \div 10) % 10, n % 10>>
Digits4(n) == <<(n \div 1000) % 10, (n \div 100) % 10, (n \div 10) % 10, n % 10>>
Hyphen == <<45>>

(* str(ca or ""): str of a datetime is fixed-width, most significant first. *)
str_created_at(ca) == IF ca.t = "datetime" THEN Digits4(ca.v) ELSE <<>>

(* str(idate or ""): "YYYY-MM" of a date, the text itself of a text. *)
str_date(d) ==
    IF d.t \in {"date", "text"} THEN Digits4(d.y) \o Hyphen \o Digits2(d.m)
    ELSE IF d.t = "other" THEN <<5>>
    ELSE <<>>

(* a < b on texts, as Python compares str: by the first differing character,
   a proper prefix being the smaller. *)
RECURSIVE TextLess(_, _)
TextLess(a, b) ==
    IF b = <<>> THEN FALSE
    ELSE IF a = <<>> THEN TRUE
    ELSE IF Head(a) # Head(b) THEN Head(a) < Head(b)
    ELSE TextLess(Tail(a), Tail(b))

(* a < b on the pairs sort_key returns. *)
KeyLess(a, b) == TextLess(a[1], b[1]) \/ (a[1] = b[1] /\ TextLess(a[2], b[2]))

invoice_sort_key_date_first(x) == <<str_date(x.issue_date), str_created_at(x.created_at)>>

invoice_sort_key(x) == <<str_created_at(x.created_at), str_date(x.issue_date)>>

expense_sort_key(x) == <<str_created_at(x.created_at), str_date(x.expense_date)>>

(* items.sort(key=..., reverse=True): stable, so documents of equal keys keep
   the order the store returned them in. *)
RECURSIVE InsertDescending(_, _, _)
InsertDescending(sorted, x, kx) ==
    IF sorted = <<>> THEN <<[k |-> kx, x |-> x]>>
    ELSE IF KeyLess(Head(sorted).k, kx) THEN <<[k |-> kx, x |-> x]>> \o sorted
    ELSE <<Head(sorted)>> \o InsertDescending(Tail(sorted), x, kx)

RECURSIVE SortDescending(_, _)
SortDescending(keyed, sorted) ==
    IF keyed = <<>> THEN sorted
    ELSE SortDescending(Tail(keyed), InsertDescending(sorted, Head(keyed).x, Head(keyed).k))

sort_invoices(items) ==
    LET keyed == [i \in DOMAIN items |-> [k |-> invoice_sort_key(items[i]), x |-> items[i]]]
        sorted == SortDescending(keyed, <<>>)
    IN  [i \in DOMAIN sorted |-> sorted[i].x]

sort_expenses(items) ==
    LET keyed == [i \in DOMAIN items |-> [k |-> expense_sort_key(items[i]), x |-> items[i]]]
        sorted == SortDescending(keyed, <<>>)
    IN  [i \in DOMAIN sorted |-> sorted[i].x]

list_invoices(limit) ==
    /\ IF ~limit_in_range(limit)
       THEN resp' = Response("list_invoices", 422, [limit |-> limit], ValidationError)
       ELSE IF ~db
       THEN resp' = Response("list_invoices", 500, [limit |-> limit], StoreError)
       ELSE \E items \in get_documents(invoice) :
              resp' = Response("list_invoices", 200, [limit |-> limit],
                               Prefix(sort_invoices(items), limit))
    /\ UNCHANGED <<db, user, invoice, expense, now, inflight, issued>>

list_expenses(limit) ==
    /\ IF ~limit_in_range(limit)
       THEN resp' = Response("list_expenses", 422, [limit |-> limit], ValidationError)
       ELSE IF ~db
       THEN resp' = Response("list_expenses", 500, [limit |-> limit], StoreError)
       ELSE \E items \in get_documents(expense) :
              resp' = Response("list_expenses", 200, [limit |-> limit],
                               Prefix(sort_expenses(items), limit))
    /\ UNCHANGED <<db, user, invoice, expense, now, inflight, issued>>

----------------------------------------------------------------------------
(* GET /test *)

CollectionNames ==
    (IF user # <<>> THEN <<"user">> ELSE <<>>)
    \o (IF invoice # <<>> THEN <<"invoice">> ELSE <<>>)
    \o (IF expense # <<>> THEN <<"expense">> ELSE <<>>)

(* list_raises: db.list_collection_names() raised. *)
test_database(list_raises) ==
    /\ resp' = Response("test", 200, <<>>,
          IF ~db
          THEN [backend |-> "Running", database |-> "Not initialized",
                connection_status |-> "Not Connected", collections |-> <<>>]
          ELSE IF list_raises
          THEN [backend |-> "Running", database |-> "Error",
                connection_status |-> "Connected", collections |-> <<>>]
          ELSE [backend |-> "Running", database |-> "Connected & Working",
                connection_status |-> "Connected",
                collections |-> Prefix(CollectionNames, 10)])
    /\ UNCHANGED <<db, user, invoice, expense, now, inflight, issued>>

----------------------------------------------------------------------------
(* The aggregation endpoints over invoices and expenses. *)

(* Request bodies: 1 x 50.00 at 21%, paid; 1 x 10.00 at 21%, a draft;
   0.4 x 0.01 at 50%, sent, dated the year before; and one the schema
   rejects (a VAT rate of 121). *)
InvoiceInputs ==
    {InvoiceDoc(Date(2024, 1), "betaald", Items(<<Item(Num(10), Num(5000), Num(21))>>), NoTime),
     InvoiceDoc(Date(2024, 1), "concept", Items(<<Item(Num(10), Num(1000), Num(21))>>), NoTime),
     InvoiceDoc(Date(2023, 12), "verzonden", Items(<<Item(Num(4), Num(1), Num(50))>>), NoTime),
     InvoiceDoc(Date(2024, 2), "betaald", Items(<<Item(Num(10), Num(100), Num(121))>>), NoTime)}

(* Documents the store may hold from elsewhere: a dated text and defaulted
   fields (2 x 100.00 at the default 21%); an item that raises after one
   that counts; no date; a text that is no date; items that are null; no
   items field; an item that is no mapping. *)
LegacyInvoices ==
    {InvoiceDoc(DateText(2024, 3), "Betaald",
                Items(<<Item(NumText(20), Num(10000), Missing)>>), NoTime),
     InvoiceDoc(Date(2024, 1), "betaald",
                Items(<<Item(Num(10), Num(700), Num(21)), Item(Bad, Num(100), Num(21))>>),
                NoTime),
     InvoiceDoc(NoDate, "betaald", Items(<<Item(Num(10), Num(300), Num(21))>>), NoTime),
     InvoiceDoc(DateText(2024, 13), "concept",
                Items(<<Item(Num(10), Num(900), Num(21))>>), NoTime),
     InvoiceDoc(Date(2024, 1), "verlopen", NullItems, NoTime),
     InvoiceDoc(Date(2024, 2), "concept", NoItems, NoTime),
     InvoiceDoc(Date(2023, 12), "betaald", Items(<<NotAnItem>>), NoTime)}

(* 100.00 at 21%; 0.004 at 50%, dated the year before; one the schema
   rejects (a negative amount). *)
ExpenseInputs ==
    {ExpenseDoc(Date(2024, 1), Num(100000), Num(21), NoTime),
     ExpenseDoc(Date(2023, 12), Num(4), Num(50), NoTime),
     ExpenseDoc(Date(2024, 2), Num(-1), Num(21), NoTime)}

LegacyExpenses ==
    {ExpenseDoc(DateText(2024, 3), NumText(2500), Missing, NoTime),
     ExpenseDoc(Date(2024, 1), Bad, Num(21), NoTime),
     ExpenseDoc(OtherDate, Num(7000), Num(21), NoTime)}

InitAgg ==
    /\ db = TRUE
    /\ user = <<>>
    /\ invoice \in {<<>>} \cup {<<d>> : d \in LegacyInvoices}
    /\ expense \in {<<>>} \cup {<<d>> : d \in LegacyExpenses}
    /\ now = 0
    /\ inflight = [c \in Clients |-> Idle]
    /\ issued = {}
    /\ resp = NoResponse

NextAgg ==
    \/ \E inv \in InvoiceInputs : create_invoice(inv)
    \/ \E ex \in ExpenseInputs : create_expense(ex)
    \/ dashboard_summary
    \/ \E year \in Years : monthly_report(year)

SpecAgg == InitAgg /\ [][NextAgg]_vars

----------------------------------------------------------------------------
(* What the documents of a collection amount to, stated on the collection. *)

RECURSIVE SumOf(_, _)
SumOf(f, S) ==
    IF S = {} THEN 0
    ELSE LET x == CHOOSE x \in S : TRUE IN f[x] + SumOf(f, S \ {x})

Readable(x) == x.t \in {"num", "numtext", "missing"}

ValueOr(x, default) == IF x.t = "missing" THEN default ELSE x.v

WellFormedInvoice(inv) ==
    /\ inv.items.t # "null"
    /\ \A k \in DOMAIN inv.items.v :
         /\ inv.items.v[k].t = "dict"
         /\ Readable(inv.items.v[k].quantity)
         /\ Readable(inv.items.v[k].unit_price)
         /\ Readable(inv.items.v[k].vat_rate)

WellFormedExpense(ex) == Readable(ex.amount_ex_vat) /\ Readable(ex.vat_rate)

LineExcl(it) == ValueOr(it.quantity, 0) * ValueOr(it.unit_price, 0) * LineBase
LineVat(it) == (LineExcl(it) * ValueOr(it.vat_rate, 21)) \div 100

InvoiceExcl(inv) == SumOf([k \in DOMAIN inv.items.v |-> LineExcl(inv.items.v[k])],
                          DOMAIN inv.items.v)
InvoiceVat(inv) == SumOf([k \in DOMAIN inv.items.v |-> LineVat(inv.items.v[k])],
                         DOMAIN inv.items.v)

ExpenseExcl(ex) == ValueOr(ex.amount_ex_vat, 0) * MillBase
ExpenseVat(ex) == (ExpenseExcl(ex) * ValueOr(ex.vat_rate, 21)) \div 100

RevenueExcl(S) == SumOf([i \in DOMAIN invoice |-> InvoiceExcl(invoice[i])], S)
RevenueVat(S) == SumOf([i \in DOMAIN invoice |-> InvoiceVat(invoice[i])], S)
ExpensesExcl(S) == SumOf([i \in DOMAIN expense |-> ExpenseExcl(expense[i])], S)
ExpensesVat(S) == SumOf([i \in DOMAIN expense |-> ExpenseVat(expense[i])], S)

(* C5: in a dashboard summary, paid_invoices is the number of invoices whose
   status is exactly "betaald", open_invoices the number of all others, the
   two adding up to the number of invoices, and revenue_ex_vat and
   revenue_vat are the rounded sums of the line amounts of every invoice,
   whatever its status. *)
C5_PaidOpenCountsAndRevenueOfAll ==
    (resp.op = "summary" /\ resp.status = 200) =>
      /\ resp.body.paid_invoices =
           Cardinality({i \in DOMAIN invoice : invoice[i].status = "betaald"})
      /\ resp.body.open_invoices =
           Cardinality({i \in DOMAIN invoice : invoice[i].status # "betaald"})
      /\ resp.body.paid_invoices + resp.body.open_invoices = Len(invoice)
      /\ resp.body.revenue_ex_vat = round2(RevenueExcl(DOMAIN invoice))
      /\ resp.body.revenue_vat = round2(RevenueVat(DOMAIN invoice))

(* One paid invoice of 50.00 and one draft of 10.00, both at 21%. *)
C5_Witness ==
    /\ resp.op = "summary"
    /\ resp.status = 200
    /\ resp.body.paid_invoices = 1
    /\ resp.body.open_invoices = 1
    /\ resp.body.revenue_ex_vat = 6000
    /\ resp.body.revenue_vat = 1260

(* The documents the monthly report counts in month m of the year. *)
DatedIn(d, year, m) ==
    /\ d.t \in {"date", "text"}
    /\ d.y \in 1..9999 /\ d.m \in 1..12
    /\ d.y = year /\ d.m = m

CountedInvoices(year, m) ==
    {i \in DOMAIN invoice : /\ DatedIn(invoice[i].issue_date, year, m)
                            /\ WellFormedInvoice(invoice[i])}

CountedExpenses(year, m) ==
    {i \in DOMAIN expense : /\ DatedIn(expense[i].expense_date, year, m)
                            /\ WellFormedExpense(expense[i])}

(* C6: the monthly report of year Y answers 200 with twelve entries, months
   1..12 in order, and each amount of month m is the rounded total of exactly
   the documents whose date is present, parses and falls in month m of Y and
   that do not raise while processed; every other document adds nothing. *)
C6_MonthlyBucketsHoldExactlyTheYear ==
    resp.op = "monthly" =>
      /\ resp.status = 200
      /\ resp.body.year = resp.req.year
      /\ DOMAIN resp.body.months = 1..12
      /\ \A m \in 1..12 :
           LET e == resp.body.months[m]
               inv == CountedInvoices(resp.req.year, m)
               exp == CountedExpenses(resp.req.year, m)
           IN  /\ e.month = m
               /\ e.revenue_ex_vat = round2(RevenueExcl(inv))
               /\ e.revenue_vat = round2(RevenueVat(inv))
               /\ e.revenue_inc_vat = round2(RevenueExcl(inv) + RevenueVat(inv))
               /\ e.expenses_ex_vat = round2(ExpensesExcl(exp))
               /\ e.expenses_vat = round2(ExpensesVat(exp))
               /\ e.expenses_inc_vat = round2(ExpensesExcl(exp) + ExpensesVat(exp))

(* January 2024 holds the 50.00 of the one invoice that counts, beside an
   invoice of the same month whose second item raises. *)
C6_Witness ==
    /\ resp.op = "monthly"
    /\ resp.req.year = 2024
    /\ \E i \in DOMAIN invoice : /\ invoice[i].issue_date = Date(2024, 1)
                                 /\ ~WellFormedInvoice(invoice[i])
                                 /\ invoice[i].items.t = "list"
    /\ resp.body.months[1].revenue_ex_vat = 5000
    /\ resp.body.months[1].revenue_vat = 1050

(* C8 (as claimed): the dashboard summary answers 200 whatever documents the
   collections hold, a document that raises being skipped. *)
C8_SummaryNeverFails ==
    resp.op = "summary" =>
      /\ resp.status = 200
      /\ resp.body.revenue_ex_vat =
           round2(RevenueExcl({i \in DOMAIN invoice : WellFormedInvoice(invoice[i])}))
      /\ resp.body.expenses_ex_vat =
           round2(ExpensesExcl({i \in DOMAIN expense : WellFormedExpense(expense[i])}))

(* C10 (as claimed): revenue_inc_vat is the sum of the outputs revenue_ex_vat
   and revenue_vat, and expenses_inc_vat the sum of expenses_ex_vat and
   expenses_vat. *)
C10_IncVatIsSumOfRoundedOutputs ==
    (resp.op = "summary" /\ resp.status = 200) =>
      /\ resp.body.revenue_inc_vat = resp.body.revenue_ex_vat + resp.body.revenue_vat
      /\ resp.body.expenses_inc_vat = resp.body.expenses_ex_vat + resp.body.expenses_vat

Within(a, b, d) == a - b <= d /\ b - a <= d

(* C10 (amended): revenue_inc_vat is the unrounded revenue total excluding
   VAT plus the unrounded VAT total, rounded once, and so within one cent of
   the sum of the outputs revenue_ex_vat and revenue_vat; likewise
   expenses_inc_vat. *)
C10_IncVatRoundsUnroundedSum ==
    (resp.op = "summary" /\ resp.status = 200) =>
      /\ resp.body.revenue_inc_vat =
           round2(RevenueExcl(DOMAIN invoice) + RevenueVat(DOMAIN invoice))
      /\ resp.body.expenses_inc_vat =
           round2(ExpensesExcl(DOMAIN expense) + ExpensesVat(DOMAIN expense))
      /\ Within(resp.body.revenue_inc_vat,
                resp.body.revenue_ex_vat + resp.body.revenue_vat, 1)
      /\ Within(resp.body.expenses_inc_vat,
                resp.body.expenses_ex_vat + resp.body.expenses_vat, 1)

(* 0.004 and 0.002 round to 0.00 each, their sum 0.006 to 0.01. *)
C10_Witness ==
    /\ resp.op = "summary"
    /\ resp.status = 200
    /\ resp.body.revenue_ex_vat = 0
    /\ resp.body.revenue_vat = 0
    /\ resp.body.revenue_inc_vat = 1

----------------------------------------------------------------------------
(* The listings, over documents created at different times. *)

ListedInvoiceInputs == {inv \in InvoiceInputs : inv.status \in {"concept", "verzonden"}}

LimitInputs == (0..MaxLimitTried) \cup {LIMIT_MAX, LIMIT_MAX + 1}

(* Expense collections earlier requests have left in the store: none; one
   document without created_at and without a date; two created in the same
   minute with different dates and one created before them. *)
StoredExpenses ==
    {<<>>,
     <<ExpenseDoc(NoDate, Num(7000), Num(21), NoTime)>>,
     <<ExpenseDoc(Date(2024, 2), Num(100000), Num(21), Time(0)),
       ExpenseDoc(Date(2023, 12), Num(4), Num(50), Time(TickMinutes)),
       ExpenseDoc(Date(2024, 1), Num(100000), Num(21), Time(TickMinutes))>>}

InitList ==
    /\ db = TRUE
    /\ user = <<>>
    /\ invoice \in {<<>>, <<InvoiceDoc(DateText(2024, 3), "Betaald",
                              Items(<<Item(NumText(20), Num(10000), Missing)>>), NoTime)>>}
    /\ expense \in StoredExpenses
    /\ now = 0
    /\ inflight = [c \in Clients |-> Idle]
    /\ issued = {}
    /\ resp = NoResponse

NextList ==
    \/ \E inv \in ListedInvoiceInputs : create_invoice(inv)
    \/ \E limit \in LimitInputs : list_invoices(limit)
    \/ \E limit \in LimitInputs : list_expenses(limit)
    \/ Tick

SpecList == InitList /\ [][NextList]_vars

CountIn(seq, d) == Cardinality({i \in DOMAIN seq : seq[i] = d})

(* The creation time and the date of a document as numbers; a document
   without the field comes before every document that has it. *)
CreatedNum(x) == IF x.created_at.t = "datetime" THEN x.created_at.v ELSE -1

DateNum(d) == IF d.t \in {"date", "text"} THEN d.y * 100 + d.m ELSE -1

ListedDate(op, x) == IF op = "list_invoices" THEN x.issue_date ELSE x.expense_date

NotBelow(op, a, b) ==
    \/ CreatedNum(a) > CreatedNum(b)
    \/ /\ CreatedNum(a) = CreatedNum(b)
       /\ DateNum(ListedDate(op, a)) >= DateNum(ListedDate(op, b))

Listing(op, coll) ==
    LET out == resp.body
    IN  /\ Len(out) = Min(resp.req.limit, Len(coll))
        /\ \A d \in Range(out) : CountIn(out, d) <= CountIn(coll, d)
        /\ \A i, j \in DOMAIN out : i < j =>
             /\ NotBelow(op, out[i], out[j])
             /\ ~(CreatedNum(out[j]) > CreatedNum(out[i]))
        /\ \A d \in Range(coll) : CountIn(coll, d) > CountIn(out, d) =>
             \A r \in Range(out) : /\ NotBelow(op, r, d)
                                   /\ ~(CreatedNum(d) > CreatedNum(r))

(* C7: for a limit in 1..200, GET /api/invoices and GET /api/expenses answer
   200 with min(limit, n) documents of the collection, the greatest under
   (creation time, then date), greatest first: no listed document was
   created later than one listed before it, and no omitted document was
   created later than a listed one. *)
C7_ListingNewestFirst ==
    /\ (resp.op = "list_invoices" /\ resp.req.limit \in LIMIT_MIN..LIMIT_MAX) =>
         resp.status = 200 /\ Listing("list_invoices", invoice)
    /\ (resp.op = "list_expenses" /\ resp.req.limit \in LIMIT_MIN..LIMIT_MAX) =>
         resp.status = 200 /\ Listing("list_expenses", expense)

(* Of two invoices, the one created later is dated earlier; limit 1 lists it. *)
C7_Witness ==
    /\ resp.op = "list_invoices"
    /\ resp.req.limit = 1
    /\ Len(invoice) = 2
    /\ Len(resp.body) = 1
    /\ \E i \in DOMAIN invoice :
         /\ CreatedNum(resp.body[1]) > CreatedNum(invoice[i])
         /\ CreatedNum(invoice[i]) >= 0
         /\ DateNum(resp.body[1].issue_date) < DateNum(invoice[i].issue_date)

----------------------------------------------------------------------------
(* The process started without a document-store connection: db is None for
   its lifetime and every persistence call raises.  A token an earlier run
   of the process issued still verifies, the key being the same.  No signup
   reaches its insert, so signup_insert is not a step of this system. *)

EarlierGrant == [token |-> create_access_token("a@x.nl", 0), doc |-> Ann, at |-> 0]

InitDown ==
    /\ db = FALSE
    /\ user = <<>>
    /\ invoice = <<>>
    /\ expense = <<>>
    /\ now = 0
    /\ inflight = [c \in Clients |-> Idle]
    /\ issued \in {{}, {EarlierGrant}}
    /\ resp = NoResponse

NextDown ==
    \/ \E list_raises \in BOOLEAN : test_database(list_raises)
    \/ \E c \in Clients, u \in SignupRequests : signup_lookup(c, u)
    \/ \E payload \in LoginRequests : login(payload)
    \/ \E credentials \in Presentable : auth_me(credentials)
    \/ dashboard_summary
    \/ \E year \in Years : monthly_report(year)
    \/ \E limit \in LimitInputs : list_invoices(limit)
    \/ \E limit \in LimitInputs : list_expenses(limit)
    \/ \E inv \in InvoiceInputs : create_invoice(inv)
    \/ \E ex \in ExpenseInputs : create_expense(ex)
    \/ Tick

SpecDown == InitDown /\ [][NextDown]_vars

NothingStored ==
    /\ user = <<>> /\ invoice = <<>> /\ expense = <<>>
    /\ Inserting = {}

DegradedTest ==
    resp.op = "test" =>
      /\ resp.status = 200
      /\ resp.body.backend = "Running"
      /\ resp.body.database = "Not initialized"

StorageRequest ==
    \/ resp.op \in {"signup", "login", "summary", "monthly"}
    \/ resp.op \in {"list_invoices", "list_expenses"} /\ limit_in_range(resp.req.limit)
    \/ resp.op = "create_invoice" /\ Invoice(resp.req)
    \/ resp.op = "create_expense" /\ Expense(resp.req)

(* The token's MAC verifies, it has not expired and it names a subject: the
   lookup of the user is reached. *)
Usable(c) == MacVerifies(c) /\ ~(c.claims.exp < now) /\ c.claims.sub # NoSub

(* C9 (as claimed): without a connection GET /test answers 200 with the
   backend running and a degraded database status, and signup, login,
   /auth/me with a bearer credential, the summary, both listings, the monthly
   report and both creation endpoints answer 500 and insert nothing. *)
C9_EveryStorageRequest500 ==
    ~db =>
      /\ NothingStored
      /\ DegradedTest
      /\ StorageRequest => resp.status = 500
      /\ (resp.op = "me" /\ resp.req.credentials.kind = "bearer") => resp.status = 500

(* C9 (amended): as claimed, except that /auth/me with a bearer credential
   answers 500 only when the token verifies, has not expired and names a
   subject; with any other bearer credential it answers 401 without a
   persistence call. *)
C9_StorageRequest500UnlessTokenRejected ==
    ~db =>
      /\ NothingStored
      /\ DegradedTest
      /\ StorageRequest => resp.status = 500
      /\ (resp.op = "me" /\ resp.req.credentials.kind = "bearer") =>
           /\ Usable(resp.req.credentials) => resp.status = 500
           /\ ~Usable(resp.req.credentials) => resp.status = 401

(* The token of the earlier run, presented before it expires: 500. *)
C9_Witness ==
    /\ ~db
    /\ resp.op = "me"
    /\ resp.req.credentials = EarlierGrant.token
    /\ resp.status = 500

====
